---- MODULE Spec2Model ----
(***************************************************************************)
(* SnapMerge: the classification-and-merge pipeline of                     *)
(* src/snapmerge/core.py and src/snapmerge/helpers.py.                     *)
(*                                                                         *)
(* File names are sequences of one-character strings so that pathlib's     *)
(* stem / suffix / with_suffix and str.lower() / "in" are computed the way *)
(* the library computes them.  A filesystem node is a record               *)
(*   [name, type, kind, fmt, size, members]                                *)
(* type    "file" | "dir"                                                  *)
(* kind    what probing the content yields: "image" (PIL opens it),        *)
(*         "video" (moviepy opens it), "archive" (shutil can unpack it),   *)
(*         "data" (none of these), "none" for a directory                  *)
(* fmt     PIL's Image.format for an image ("PNG", "JPEG"), "" otherwise   *)
(* size    <<width, height>> of an image or a video, <<0, 0>> otherwise    *)
(* members the children of a directory / the top-level members of an       *)
(*         archive, each a leaf node                                       *)
(***************************************************************************)
EXTENDS Naturals, Integers, Sequences, FiniteSets, TLC

\* ------------------------------------------------------------------------
\* Characters and names

UpperChars == <<"A","B","C","D","E","F","G","H","I","J","K","L","M",
                "N","O","P","Q","R","S","T","U","V","W","X","Y","Z">>

LowerChars == <<"a","b","c","d","e","f","g","h","i","j","k","l","m",
                "n","o","p","q","r","s","t","u","v","w","x","y","z">>

\* str.lower() on one character
LowerChar(c) ==
    IF \E i \in 1..Len(UpperChars) : UpperChars[i] = c
    THEN LowerChars[CHOOSE i \in 1..Len(UpperChars) : UpperChars[i] = c]
    ELSE c

\* str.lower()
Lower(s) == [i \in 1..Len(s) |-> LowerChar(s[i])]

\* sub in s   (Python substring test)
Contains(s, sub) ==
    \E i \in 0..(Len(s) - Len(sub)) : SubSeq(s, i + 1, i + Len(sub)) = sub

\* s.endswith(suf)
EndsWith(s, suf) ==
    /\ Len(suf) <= Len(s)
    /\ SubSeq(s, Len(s) - Len(suf) + 1, Len(s)) = suf

\* s.rfind(".") as a 1-based position, 0 when there is no dot
RFindDot(s) ==
    IF \E i \in 1..Len(s) : s[i] = "."
    THEN CHOOSE i \in 1..Len(s) :
            s[i] = "." /\ \A j \in (i + 1)..Len(s) : s[j] # "."
    ELSE 0

\* PurePath.suffix: the last dot and what follows it, unless the dot is the
\* first or the last character of the name
Suffix(name) ==
    LET i == RFindDot(name)
    IN  IF 1 < i /\ i < Len(name) THEN SubSeq(name, i, Len(name)) ELSE <<>>

\* PurePath.stem: the name without its suffix
Stem(name) ==
    LET i == RFindDot(name)
    IN  IF 1 < i /\ i < Len(name) THEN SubSeq(name, 1, i - 1) ELSE name

\* PurePath.with_suffix(suffix): the old suffix, if any, is replaced
WithSuffix(name, suffix) ==
    SubSeq(name, 1, Len(name) - Len(Suffix(name))) \o suffix

Dot       == <<".">>
S_main    == <<"m","a","i","n">>
S_overlay == <<"o","v","e","r","l","a","y">>
S_zip     == <<"z","i","p">>
S_tar     == <<"t","a","r">>
S_gz      == <<"g","z">>
S_tgz     == <<"t","g","z">>
S_png     == <<"p","n","g">>
S_jpg     == <<"j","p","g">>
S_jpeg    == <<"j","p","e","g">>
S_mp4     == <<"m","p","4">>
S_txt     == <<"t","x","t">>
S_dat     == <<"d","a","t">>
S_photo   == <<"p","h","o","t","o">>
S_PHOTO   == <<"P","H","O","T","O">>
S_PNG     == <<"P","N","G">>
S_clip    == <<"c","l","i","p">>
S_bundle  == <<"b","u","n","d","l","e">>
S_notes   == <<"n","o","t","e","s">>
S_a       == <<"a">>
S_b       == <<"b">>
S_x       == <<"x">>
S_x_      == <<"x","_">>

\* ------------------------------------------------------------------------
\* Filesystem nodes

NoSize == <<0, 0>>

File(n, k, f, sz) ==
    [name |-> n, type |-> "file", kind |-> k, fmt |-> f, size |-> sz,
     members |-> {}, origin |-> "input", layer |-> NoSize]

Dir(n, ms) ==
    [name |-> n, type |-> "dir", kind |-> "none", fmt |-> <<>>, size |-> NoSize,
     members |-> ms, origin |-> "input", layer |-> NoSize]

Archive(n, ms) ==
    [name |-> n, type |-> "file", kind |-> "archive", fmt |-> <<>>,
     size |-> NoSize, members |-> ms, origin |-> "input", layer |-> NoSize]

\* a path that names nothing
Missing(n) ==
    [name |-> n, type |-> "missing", kind |-> "none", fmt |-> <<>>,
     size |-> NoSize, members |-> {}, origin |-> "input", layer |-> NoSize]

NoNode == Missing(<<>>)

\* a file that was in the destination before the run ("original" in the tests)
PreExisting(n) ==
    [name |-> n, type |-> "file", kind |-> "data", fmt |-> <<>>,
     size |-> NoSize, members |-> {}, origin |-> "pre", layer |-> NoSize]

Exists(p) == p.type # "missing"
IsFile(p) == p.type = "file"
IsDir(p)  == p.type = "dir"

\* ------------------------------------------------------------------------
\* helpers.py

\* Image.open(path) succeeds
PilOpens(p) == p.kind = "image"

\* VideoFileClip(path) succeeds
MoviepyOpens(p) == p.kind = "video"

_is_image(p) ==
    IF ~Exists(p) \/ ~IsFile(p) THEN FALSE ELSE PilOpens(p)

_is_video(p) ==
    IF ~Exists(p) \/ ~IsFile(p) THEN FALSE ELSE MoviepyOpens(p)

_is_media(p) == _is_image(p) \/ _is_video(p)

\* image.format.lower(); ValueError when the path is missing or no image
_get_image_extension(p) ==
    IF ~Exists(p) \/ ~_is_image(p)
    THEN [ok |-> FALSE, err |-> "ValueError", ext |-> <<>>]
    ELSE [ok |-> TRUE, err |-> "", ext |-> Lower(p.fmt)]

EXT == { Dot \o S_zip, Dot \o S_tar, Dot \o S_tar \o Dot \o S_gz, Dot \o S_tgz }

_is_archive(name) == Lower(Suffix(name)) \in EXT

\* Python values handed to _already_exists: a str or a Path
PyStr(s)  == [type |-> "str",  value |-> s]
PyPath(s) == [type |-> "Path", value |-> s]

\* the check taking the str it is given as the base name
_already_exists_AcceptsStr(name, output_dir) ==
    [ok |-> TRUE, err |-> "",
     value |-> \E f \in output_dir :
                   IsFile(f) /\ Lower(Stem(f.name))
                                   = (IF name.type = "Path"
                                      THEN Lower(Stem(name.value))
                                      ELSE Lower(name.value))]

\* name.stem.lower() is evaluated first; a str has no attribute "stem"
_already_exists(name, output_dir) ==
    IF name.type # "Path"
    THEN [ok |-> FALSE, err |-> "AttributeError", value |-> FALSE]
    ELSE [ok |-> TRUE, err |-> "",
          value |-> \E f \in output_dir :
                        IsFile(f) /\ Lower(Stem(f.name)) = Lower(Stem(name.value))]

\* ------------------------------------------------------------------------
\* core.py: get_media_and_overlay_file

F_PNG  == <<"P","N","G">>
F_JPEG == <<"J","P","E","G">>

\* the overlay filter without .lower()
Overlays_CaseSensitive(dir) ==
    { f \in dir.members : Contains(f.name, S_overlay) /\ _is_image(f) }

\* [f for f in files if "overlay" in f.name.lower() and _is_image(f)]
Overlays(dir) ==
    { f \in dir.members : Contains(Lower(f.name), S_overlay) /\ _is_image(f) }

\* [f for f in files if "main" in f.name.lower() and _is_media(f)]
Medias(dir) ==
    { f \in dir.members : Contains(Lower(f.name), S_main) /\ _is_media(f) }

PairError(role, n, dir) ==
    [ok |-> FALSE, err |-> "ValueError", role |-> role, count |-> n,
     dir |-> dir.name, media |-> NoNode, overlay |-> NoNode]

get_media_and_overlay_file(dir) ==
    IF ~Exists(dir) \/ ~IsDir(dir)
    THEN PairError("directory", 0, dir)
    ELSE IF Cardinality(Overlays(dir)) # 1
    THEN PairError("overlay", Cardinality(Overlays(dir)), dir)
    ELSE IF Cardinality(Medias(dir)) # 1
    THEN PairError("media", Cardinality(Medias(dir)), dir)
    ELSE [ok |-> TRUE, err |-> "", role |-> "", count |-> 1, dir |-> dir.name,
          media   |-> CHOOSE f \in Medias(dir) : TRUE,
          overlay |-> CHOOSE f \in Overlays(dir) : TRUE]

\* ------------------------------------------------------------------------
\* core.py: combine_media

\* the format PIL's save() derives from the extension of the path it is given
\* (the formats of the inputs modelled here: PNG and JPEG)
PilFormatOfExt(ext) ==
    IF ext = S_png THEN F_PNG
    ELSE IF ext = S_jpg \/ ext = S_jpeg THEN F_JPEG
    ELSE <<>>

\* writing a file replaces a file of the same name
Write(dirfiles, node) == { f \in dirfiles : f.name # node.name } \cup { node }

CombineError(e, made, out) ==
    [ok |-> FALSE, err |-> e, path |-> <<>>, mkdir |-> made, out |-> out]

\* overlay.resize(media.size) when the sizes differ: the layer handed to
\* Image.alpha_composite
ImageLayer(media, overlay) ==
    IF media.size # overlay.size THEN media.size ELSE overlay.size

\* ImageClip(overlay_path): the clip is built from the file, the resized
\* PIL image of line 121 is not used
VideoLayer(video, overlay) == overlay.size

combine_media(media, overlay, output_name, out) ==
    IF ~Exists(media) \/ ~IsFile(media)
    THEN CombineError("FileNotFoundError", FALSE, out)
    ELSE IF ~Exists(overlay) \/ ~IsFile(overlay)
    THEN CombineError("FileNotFoundError", FALSE, out)
    ELSE IF Suffix(output_name) # <<>>
    THEN CombineError("ValueError", FALSE, out)
    ELSE IF _is_image(media)
    THEN LET ext  == _get_image_extension(media).ext
             path == WithSuffix(output_name, Dot \o ext)
         IN  IF ~PilOpens(overlay)
             THEN CombineError("UnidentifiedImageError", TRUE, out)
             ELSE IF PilFormatOfExt(ext) = <<>>
             THEN CombineError("ValueError", TRUE, out)
             ELSE [ok |-> TRUE, err |-> "", path |-> path, mkdir |-> TRUE,
                   out |-> Write(out,
                       [name |-> path, type |-> "file", kind |-> "image",
                        fmt |-> PilFormatOfExt(ext), size |-> media.size,
                        members |-> {}, origin |-> "merge",
                        layer |-> ImageLayer(media, overlay)])]
    ELSE IF _is_video(media)
    THEN LET path == WithSuffix(output_name, Dot \o S_mp4)
         IN  IF ~PilOpens(overlay)
             THEN CombineError("UnidentifiedImageError", TRUE, out)
             ELSE [ok |-> TRUE, err |-> "", path |-> path, mkdir |-> TRUE,
                   out |-> Write(out,
                       [name |-> path, type |-> "file", kind |-> "video",
                        fmt |-> <<>>, size |-> media.size,
                        members |-> {}, origin |-> "merge",
                        layer |-> VideoLayer(media, overlay)])]
    ELSE CombineError("ValueError", TRUE, out)

\* ------------------------------------------------------------------------
\* core.py: _unpack_archive

S_tmp == <<"t","m","p">>

\* shutil.unpack_archive picks the format by filename.endswith(extension),
\* case-sensitively, among its registered formats
ShutilKnows(name) == \E e \in EXT : EndsWith(name, e)

\* cleanup that only runs when the block ends normally
ScratchAfterExit_LeakOnError(live, id, raised) ==
    IF raised THEN live ELSE live \ {id}

\* TemporaryDirectory.__exit__ : the scratch directory is removed whether the
\* block ended normally or by an exception
ScratchAfterExit(live, id, raised) == live \ {id}

\* up to the yield: made says whether the scratch directory was created
UnpackEnterResult(archive) ==
    IF ~Exists(archive) \/ ~IsFile(archive)
    THEN [ok |-> FALSE, err |-> "FileNotFoundError", made |-> FALSE, tmp |-> NoNode]
    ELSE IF ~_is_archive(archive.name)
    THEN [ok |-> FALSE, err |-> "ValueError", made |-> FALSE, tmp |-> NoNode]
    ELSE IF ~ShutilKnows(archive.name) \/ archive.kind # "archive"
    THEN [ok |-> FALSE, err |-> "ReadError", made |-> TRUE, tmp |-> NoNode]
    ELSE IF Cardinality(archive.members) # 2
    THEN [ok |-> FALSE, err |-> "ValueError", made |-> TRUE, tmp |-> NoNode]
    ELSE [ok |-> TRUE, err |-> "", made |-> TRUE,
          tmp |-> Dir(S_tmp, archive.members)]

\* ------------------------------------------------------------------------
\* core.py: process_data, one iteration of "for entry in input_dir.iterdir()"
\* route: the branch of the loop body the entry took
EntryResult(route, st, e, path, out, live, made) ==
    [route |-> route, status |-> st, err |-> e, path |-> path, out |-> out,
     live |-> live, made |-> made]

\* media, overlay = get_media_and_overlay_file(d)
\* combine_media(media, overlay, output_dir / base_name)
PairAndCombine(d, base, out) ==
    LET pair == get_media_and_overlay_file(d)
    IN  IF ~pair.ok
        THEN CombineError(pair.err, FALSE, out)
        ELSE combine_media(pair.media, pair.overlay, base, out)

\* with _unpack_archive(entry) as temp: ...
ArchiveBranch(entry, base, out, live, made) ==
    LET u  == UnpackEnterResult(entry)
        id == made + 1
    IN  IF ~u.made
        THEN EntryResult("archive", "failed", u.err, <<>>, out, live, made)
        ELSE IF ~u.ok
        THEN EntryResult("archive", "failed", u.err, <<>>, out,
                         ScratchAfterExit(live \cup {id}, id, TRUE), id)
        ELSE LET c == PairAndCombine(u.tmp, base, out)
             IN  EntryResult("archive", IF c.ok THEN "merged" ELSE "failed",
                             c.err, c.path, c.out,
                             ScratchAfterExit(live \cup {id}, id, ~c.ok), id)

\* shutil.copy2(entry, output_dir / name)
CopyTo(entry, name, out) ==
    Write(out, [entry EXCEPT !.name = name, !.origin = "copy"])

\* the name line 188 gives the copy of a loose image
ImageCopyName(entry) ==
    Stem(entry.name) \o Dot \o _get_image_extension(entry).ext

ProcessEntry(entry, out, overwrite, live, made) ==
    LET base_name == Stem(entry.name)
        ae        == _already_exists(PyStr(base_name), out)
    IN  IF ~ae.ok
        THEN EntryResult("none", "failed", ae.err, <<>>, out, live, made)
        ELSE IF ae.value /\ ~overwrite
        THEN EntryResult("skip", "skipped", "", <<>>, out, live, made)
        ELSE IF _is_archive(entry.name)
        THEN ArchiveBranch(entry, base_name, out, live, made)
        ELSE IF IsDir(entry)
        THEN LET c == PairAndCombine(entry, base_name, out)
             IN  EntryResult("dir", IF c.ok THEN "merged" ELSE "failed", c.err,
                             c.path, c.out, live, made)
        ELSE IF _is_video(entry)
        THEN EntryResult("video", "copied", "", entry.name,
                         CopyTo(entry, entry.name, out), live, made)
        ELSE IF _is_image(entry)
        THEN EntryResult("image", "copied", "", ImageCopyName(entry),
                         CopyTo(entry, ImageCopyName(entry), out), live, made)
        ELSE EntryResult("unsupported", "failed", "ValueError", <<>>, out,
                         live, made)

\* ------------------------------------------------------------------------
\* Inputs: the files, directories and archives the operations are run on

S_OVERLAY == <<"O","V","E","R","L","A","Y">>
S_bad     == <<"b","a","d">>
Under     == <<"_">>

Small == <<1, 1>>
Big   == <<2, 2>>

M_main_jpg     == File(S_x_ \o S_main \o Dot \o S_jpg, "image", F_JPEG, Big)
M_main_png     == File(S_main \o Dot \o S_png, "image", F_PNG, Big)
M_main_mp4     == File(S_clip \o Under \o S_main \o Dot \o S_mp4, "video", <<>>, Big)
M_overlay_png  == File(S_x_ \o S_overlay \o Dot \o S_png, "image", F_PNG, Small)
M_OVERLAY_PNG  == File(S_x_ \o S_OVERLAY \o Dot \o S_PNG, "image", F_PNG, Big)
M_main_overlay == File(S_main \o Under \o S_overlay \o Dot \o S_png, "image", F_PNG, Big)
M_overlay_txt  == File(S_overlay \o Dot \o S_txt, "data", <<>>, NoSize)
M_notes_txt    == File(S_notes \o Dot \o S_txt, "data", <<>>, NoSize)
M_main_dir     == Dir(S_main, {})

MemberPool ==
    { M_main_jpg, M_main_png, M_main_mp4, M_overlay_png, M_OVERLAY_PNG,
      M_main_overlay, M_overlay_txt, M_notes_txt, M_main_dir }

ImagePair == { M_main_jpg, M_overlay_png }
VideoPair == { M_main_mp4, M_overlay_png }

E_photo_jpg  == File(S_photo \o Dot \o S_jpg, "image", F_JPEG, Big)
E_photo      == File(S_photo, "image", F_PNG, Big)
E_photo_dat  == File(S_photo \o Dot \o S_dat, "image", F_PNG, Big)
E_clip_mp4   == File(S_clip \o Dot \o S_mp4, "video", <<>>, Big)
E_notes_txt  == File(S_notes \o Dot \o S_txt, "data", <<>>, NoSize)
E_bundle_zip == Archive(S_bundle \o Dot \o S_zip, ImagePair)
E_x_tar_gz   == Archive(S_x \o Dot \o S_tar \o Dot \o S_gz, ImagePair)
E_a_b_zip    == Archive(S_a \o Dot \o S_b \o Dot \o S_zip, ImagePair)
E_a_zip      == Archive(S_a \o Dot \o S_zip, VideoPair)
E_a_tar      == Archive(S_a \o Dot \o S_tar, ImagePair)
E_a_tgz      == Archive(S_a \o Dot \o S_tgz, ImagePair)
E_bad_zip    == Archive(S_bad \o Dot \o S_zip, { M_main_jpg })
E_a_dir      == Dir(S_a, ImagePair)
E_clip_dir   == Dir(S_clip, VideoPair)
E_b_dir      == Dir(S_b, { M_main_jpg })

EntryPool ==
    { E_photo_jpg, E_photo, E_photo_dat, E_clip_mp4, E_notes_txt,
      E_bundle_zip, E_x_tar_gz, E_a_b_zip, E_a_zip, E_a_tar, E_a_tgz,
      E_bad_zip, E_a_dir, E_clip_dir, E_b_dir }

\* files that may be in the destination before a run
PrePool ==
    { PreExisting(S_PHOTO \o Dot \o S_PNG),
      PreExisting(S_bundle \o Dot \o S_jpeg),
      PreExisting(S_a \o Dot \o S_png) }

MaxEntries == 2
MaxCalls   == 2
MaxMembers == 3

\* the listings input_dir.iterdir() can give: distinct names, any order
Listings ==
    { q \in UNION { [1..n -> EntryPool] : n \in 0..MaxEntries } :
        \A i, j \in 1..Len(q) : i # j => q[i].name # q[j].name }

\* ------------------------------------------------------------------------
\* State

VARIABLES
    inputExists,  \* the input directory exists
    entries,      \* the input directory's top-level entries, in iterdir order
    outExists,    \* the output directory exists
    out,          \* the files of the output directory
    pc,           \* "idle", "loop" (inside process_data's for), "scope"
                  \* (inside a with _unpack_archive block), "main" (inside
                  \* the for of the process_data call made by cli.main)
    overwrite,    \* the overwrite argument of the current process_data call
    idx,          \* position of the for loop in entries
    status,       \* what each iteration of the current run did
    out0,         \* the output directory's files when the current run began
    calls,        \* number of calls made so far
    tmpLive,      \* scratch directories that exist
    tmpMade,      \* scratch directories created so far
    scope,        \* the archive and scratch directory of the open with block
    runs,         \* the finished process_data calls: [overwrite, ok]
    ret           \* the last finished call: [op, arg, val]

vars == << inputExists, entries, outExists, out, pc, overwrite, idx, status,
           out0, calls, tmpLive, tmpMade, scope, runs, ret >>

NoRet   == [op |-> "none", arg |-> NoNode, val |-> [ok |-> TRUE, err |-> ""]]
NoScope == [archive |-> NoNode, tmp |-> NoNode, id |-> 0]

Init ==
    /\ inputExists \in BOOLEAN
    /\ entries \in (IF inputExists THEN Listings ELSE { <<>> })
    /\ outExists \in BOOLEAN
    /\ out \in (IF outExists THEN SUBSET PrePool ELSE { {} })
    /\ pc = "idle"
    /\ overwrite = FALSE
    /\ idx = 0
    /\ status = <<>>
    /\ out0 = out
    /\ calls = 0
    /\ tmpLive = {}
    /\ tmpMade = 0
    /\ scope = NoScope
    /\ runs = <<>>
    /\ ret = NoRet

\* ------------------------------------------------------------------------
\* process_data(input_dir, output_dir, overwrite)

\* lines 163-166: the input directory is checked, the output directory made
StartProcessData(ow) ==
    /\ pc = "idle"
    /\ calls < MaxCalls
    /\ calls' = calls + 1
    /\ overwrite' = ow
    /\ status' = <<>>
    /\ out0' = out
    /\ idx' = 1
    /\ IF ~inputExists
       THEN /\ pc' = "idle"
            /\ ret' = [op |-> "process_data", arg |-> NoNode,
                       val |-> [ok |-> FALSE, err |-> "ValueError"]]
            /\ runs' = Append(runs, [overwrite |-> ow, ok |-> FALSE])
            /\ UNCHANGED outExists
       ELSE /\ pc' = "loop"
            /\ outExists' = TRUE
            /\ UNCHANGED << ret, runs >>
    /\ UNCHANGED << inputExists, entries, out, tmpLive, tmpMade, scope >>

\* the loop body wrapped in try/except: a failing entry is noted and the loop
\* goes on to the next one
LoopStep_CatchAndContinue ==
    /\ pc = "loop"
    /\ idx <= Len(entries)
    /\ LET r == ProcessEntry(entries[idx], out, overwrite, tmpLive, tmpMade)
       IN  /\ status' = Append(status,
                   [route |-> r.route, status |-> r.status, err |-> r.err,
                    path |-> r.path])
           /\ out' = r.out
           /\ tmpLive' = r.live
           /\ tmpMade' = r.made
           /\ idx' = idx + 1
    /\ UNCHANGED << inputExists, entries, outExists, overwrite, out0, calls,
                    scope, pc, ret, runs >>

\* lines 168-191: one iteration; an exception leaves the loop and the call
LoopStep ==
    /\ pc = "loop"
    /\ idx <= Len(entries)
    /\ LET r == ProcessEntry(entries[idx], out, overwrite, tmpLive, tmpMade)
       IN  /\ status' = Append(status,
                   [route |-> r.route, status |-> r.status, err |-> r.err,
                    path |-> r.path])
           /\ out' = r.out
           /\ tmpLive' = r.live
           /\ tmpMade' = r.made
           /\ IF r.status = "failed"
              THEN /\ pc' = "idle"
                   /\ ret' = [op |-> "process_data", arg |-> entries[idx],
                              val |-> [ok |-> FALSE, err |-> r.err]]
                   /\ runs' = Append(runs, [overwrite |-> overwrite, ok |-> FALSE])
                   /\ UNCHANGED idx
              ELSE /\ idx' = idx + 1
                   /\ UNCHANGED << pc, ret, runs >>
    /\ UNCHANGED << inputExists, entries, outExists, overwrite, out0, calls, scope >>

\* line 193: return True
ReturnProcessData ==
    /\ pc = "loop"
    /\ idx > Len(entries)
    /\ pc' = "idle"
    /\ ret' = [op |-> "process_data", arg |-> NoNode,
               val |-> [ok |-> TRUE, err |-> ""]]
    /\ runs' = Append(runs, [overwrite |-> overwrite, ok |-> TRUE])
    /\ UNCHANGED << inputExists, entries, outExists, out, overwrite, idx, status,
                    out0, calls, tmpLive, tmpMade, scope >>

Next ==
    \/ \E ow \in BOOLEAN : StartProcessData(ow)
    \/ LoopStep
    \/ ReturnProcessData

Spec == Init /\ [][Next]_vars

\* ------------------------------------------------------------------------
\* get_media_and_overlay_file(dir_path) called on its own

\* the directories it is called on: up to MaxMembers children with distinct
\* names; a path that does not exist; a path that is a file
PairArgs ==
    { Dir(S_clip, ms) : ms \in { x \in SUBSET MemberPool : Cardinality(x) <= MaxMembers } }
        \cup { Missing(S_clip), E_photo_jpg }

CallGetMediaAndOverlay(d) ==
    /\ pc = "idle"
    /\ calls < MaxCalls
    /\ calls' = calls + 1
    /\ ret' = [op |-> "get_media_and_overlay_file", arg |-> d,
               val |-> get_media_and_overlay_file(d)]
    /\ UNCHANGED << inputExists, entries, outExists, out, pc, overwrite, idx,
                    status, out0, tmpLive, tmpMade, scope, runs >>

\* the input directory of process_data plays no part in the direct calls
InitCall == Init /\ inputExists /\ entries = <<>>

\* nor does the output directory in get_media_and_overlay_file
InitPair == InitCall /\ out = {}

NextPair == \E d \in PairArgs : CallGetMediaAndOverlay(d)

SpecPair == InitPair /\ [][NextPair]_vars

\* ------------------------------------------------------------------------
\* combine_media(media_path, overlay_path, output_path) called on its own,
\* output_path = output directory / base

\* a PNG image under a .jpg name
M_small_png == File(S_main \o Dot \o S_jpg, "image", F_PNG, Small)

MediaArgs   == { M_main_jpg, M_main_png, M_small_png, M_main_mp4, M_notes_txt,
                 Missing(S_main) }
OverlayArgs == { M_overlay_png, M_OVERLAY_PNG, M_overlay_txt, Missing(S_overlay) }
BaseArgs    == { S_bundle, S_a, S_a \o Dot \o S_b }

CallCombineMedia(media, overlay, base) ==
    /\ pc = "idle"
    /\ calls < MaxCalls
    /\ calls' = calls + 1
    /\ LET r == combine_media(media, overlay, base, out)
       IN  /\ ret' = [op |-> "combine_media",
                      arg |-> [media |-> media, overlay |-> overlay, base |-> base],
                      val |-> [ok |-> r.ok, err |-> r.err, path |-> r.path]]
           /\ out' = r.out
           /\ outExists' = (outExists \/ r.mkdir)
    /\ UNCHANGED << inputExists, entries, pc, overwrite, idx, status, out0,
                    tmpLive, tmpMade, scope, runs >>

NextCombine ==
    \E media \in MediaArgs, overlay \in OverlayArgs, base \in BaseArgs :
        CallCombineMedia(media, overlay, base)

SpecCombine == InitCall /\ [][NextCombine]_vars

\* ------------------------------------------------------------------------
\* with _unpack_archive(archive) as temp:
\*     media, overlay = get_media_and_overlay_file(temp)
\*     combine_media(media, overlay, output_dir / archive.stem)
\* run on its own, in two steps: up to the yield, then the block and the exit

S_c       == <<"c">>
S_d       == <<"d">>
E_two_zip == Archive(S_b \o Dot \o S_zip, { M_main_jpg, M_notes_txt })
E_c_zip   == File(S_c \o Dot \o S_zip, "data", <<>>, NoSize)
E_d_zip   == Dir(S_d \o Dot \o S_zip, ImagePair)

ArchiveArgs ==
    { E_bundle_zip, E_a_zip, E_a_tar, E_a_tgz, E_x_tar_gz, E_a_b_zip,
      E_bad_zip, E_two_zip, E_c_zip, E_d_zip, E_notes_txt,
      Missing(S_a \o Dot \o S_zip) }

UnpackEnter(archive) ==
    /\ pc = "idle"
    /\ calls < MaxCalls
    /\ calls' = calls + 1
    /\ LET u  == UnpackEnterResult(archive)
           id == tmpMade + 1
       IN  /\ tmpMade' = (IF u.made THEN id ELSE tmpMade)
           /\ IF u.ok
              THEN /\ pc' = "scope"
                   /\ scope' = [archive |-> archive, tmp |-> u.tmp, id |-> id]
                   /\ tmpLive' = tmpLive \cup {id}
                   /\ UNCHANGED ret
              ELSE /\ pc' = "idle"
                   /\ tmpLive' = (IF u.made
                                  THEN ScratchAfterExit(tmpLive \cup {id}, id, TRUE)
                                  ELSE tmpLive)
                   /\ ret' = [op |-> "_unpack_archive", arg |-> archive,
                              val |-> [ok |-> FALSE, err |-> u.err, path |-> <<>>,
                                       made |-> u.made, stage |-> "unpack"]]
                   /\ UNCHANGED scope
    /\ UNCHANGED << inputExists, entries, outExists, out, overwrite, idx, status,
                    out0, runs >>

ScopeBody ==
    /\ pc = "scope"
    /\ LET pair == get_media_and_overlay_file(scope.tmp)
           c    == PairAndCombine(scope.tmp, Stem(scope.archive.name), out)
       IN  /\ out' = c.out
           /\ outExists' = (outExists \/ c.mkdir)
           /\ tmpLive' = ScratchAfterExit(tmpLive, scope.id, ~c.ok)
           /\ ret' = [op |-> "_unpack_archive", arg |-> scope.archive,
                      val |-> [ok |-> c.ok, err |-> c.err, path |-> c.path,
                               made |-> TRUE,
                               stage |-> IF ~pair.ok THEN "pairing"
                                         ELSE IF ~c.ok THEN "composite"
                                         ELSE "merged"]]
    /\ pc' = "idle"
    /\ scope' = NoScope
    /\ UNCHANGED << inputExists, entries, overwrite, idx, status, out0, calls,
                    tmpMade, runs >>

NextUnpack ==
    \/ \E a \in ArchiveArgs : UnpackEnter(a)
    \/ ScopeBody

SpecUnpack == InitCall /\ [][NextUnpack]_vars

\* ------------------------------------------------------------------------
\* cli.py: main(argv); pc = "main" while its call of process_data is in the
\* for loop, ret holds the parsed arguments from the start of the call

\* the overwrite argument main gives process_data: in both branches the call
\* is process_data(input_dir=..., output_dir=...), so the default, False
MainOverwrite(args) == FALSE

\* exit codes of main; ExitPending while main has not returned
ExitOk        == 0
ExitNoInput   == 1
ExitException == 2
ExitPending   == 3

MainArgs(dry_run, ow, verbose) ==
    [dry_run |-> dry_run, overwrite |-> ow, verbose |-> verbose]

MainRet(args, code, e, made) ==
    [op |-> "main", arg |-> args,
     val |-> [ok |-> code = ExitOk, err |-> e, code |-> code, made |-> made]]

\* lines 79-111 up to the loop of process_data: the input directory is
\* checked, the output directory made, process_data entered in either branch
MainStart(dry_run, ow, verbose) ==
    /\ pc = "idle"
    /\ calls < MaxCalls
    /\ calls' = calls + 1
    /\ out0' = out
    /\ status' = <<>>
    /\ idx' = 1
    /\ IF ~inputExists
       THEN /\ ret' = MainRet(MainArgs(dry_run, ow, verbose), ExitNoInput,
                              "no input directory", 0)
            /\ UNCHANGED << pc, outExists, overwrite >>
       ELSE /\ pc' = "main"
            /\ outExists' = TRUE
            /\ overwrite' = MainOverwrite(MainArgs(dry_run, ow, verbose))
            /\ ret' = MainRet(MainArgs(dry_run, ow, verbose), ExitPending, "", 0)
    /\ UNCHANGED << inputExists, entries, out, tmpLive, tmpMade, scope, runs >>

\* one iteration of process_data's loop inside main's try; an exception is
\* caught by "except Exception" and main returns 2
MainStep ==
    /\ pc = "main"
    /\ idx <= Len(entries)
    /\ LET r == ProcessEntry(entries[idx], out, overwrite, tmpLive, tmpMade)
       IN  /\ status' = Append(status,
                   [route |-> r.route, status |-> r.status, err |-> r.err,
                    path |-> r.path])
           /\ out' = r.out
           /\ tmpLive' = r.live
           /\ tmpMade' = r.made
           /\ IF r.status = "failed"
              THEN /\ pc' = "idle"
                   /\ ret' = MainRet(ret.arg, ExitException, r.err,
                                     ret.val.made + (r.made - tmpMade))
                   /\ runs' = Append(runs, [overwrite |-> overwrite, ok |-> FALSE])
                   /\ UNCHANGED idx
              ELSE /\ idx' = idx + 1
                   /\ ret' = MainRet(ret.arg, ExitPending, "",
                                     ret.val.made + (r.made - tmpMade))
                   /\ UNCHANGED << pc, runs >>
    /\ UNCHANGED << inputExists, entries, outExists, overwrite, out0, calls, scope >>

\* process_data returned: return 0
MainReturn ==
    /\ pc = "main"
    /\ idx > Len(entries)
    /\ pc' = "idle"
    /\ ret' = MainRet(ret.arg, ExitOk, "", ret.val.made)
    /\ runs' = Append(runs, [overwrite |-> overwrite, ok |-> TRUE])
    /\ UNCHANGED << inputExists, entries, outExists, out, overwrite, idx, status,
                    out0, calls, tmpLive, tmpMade, scope >>

NextMain ==
    \/ \E dry_run \in BOOLEAN, ow \in BOOLEAN, verbose \in BOOLEAN :
          MainStart(dry_run, ow, verbose)
    \/ MainStep
    \/ MainReturn

SpecMain == Init /\ [][NextMain]_vars

\* ------------------------------------------------------------------------
\* Vocabulary of the properties

\* a regular file of files has the stem of name, case-insensitively
StemPresent(name, files) ==
    \E f \in files : f.type = "file" /\ Lower(Stem(f.name)) = Lower(Stem(name))

\* e names a supported archive format
HasArchiveExtension(e) ==
    \/ EndsWith(e.name, Dot \o S_zip)
    \/ EndsWith(e.name, Dot \o S_tar)
    \/ EndsWith(e.name, Dot \o S_tar \o Dot \o S_gz)
    \/ EndsWith(e.name, Dot \o S_tgz)

\* ms holds exactly one main media and one overlay image and nothing else
IsPair(ms) ==
    /\ Cardinality(ms) = 2
    /\ Cardinality({ f \in ms : f.type = "file" /\ f.kind = "image"
                                /\ Contains(Lower(f.name), S_overlay) }) = 1
    /\ Cardinality({ f \in ms : f.type = "file" /\ f.kind \in {"image", "video"}
                                /\ Contains(Lower(f.name), S_main) }) = 1

\* an entry the pipeline is meant to handle
Supported(e) ==
    \/ e.type = "file" /\ e.kind \in {"image", "video"}
    \/ e.type = "file" /\ e.kind = "archive" /\ HasArchiveExtension(e)
           /\ IsPair(e.members)
    \/ e.type = "dir" /\ IsPair(e.members)

\* the loop is about to process entries[idx]
AtEntry == pc = "loop" /\ idx <= Len(entries)

\* ------------------------------------------------------------------------
\* C1: with overwrite=False an entry whose stem is, case-insensitively, the
\* stem of a regular file of the output directory is skipped: the iteration
\* raises nothing, the loop goes on and the output directory is unchanged.
C1_SkipsExistingOutput ==
    [][ (AtEntry /\ ~overwrite /\ StemPresent(entries[idx].name, out))
        => /\ pc' = "loop"
           /\ status'[idx].status = "skipped"
           /\ out' = out ]_vars

\* C2: with overwrite=True a supported entry is processed (merged or copied)
\* even when the output directory holds a file of its base name, and a
\* pre-existing file at the path it writes is replaced by the new output.
C2_OverwriteProcesses ==
    [][ (AtEntry /\ overwrite /\ Supported(entries[idx])
           /\ StemPresent(entries[idx].name, out))
        => /\ status'[idx].status \in {"merged", "copied"}
           /\ \E f \in out' : f.name = status'[idx].path /\ f.origin # "pre" ]_vars

\* C3: when every run so far was made with overwrite=False on a directory of
\* supported entries, each finished run ended without an error, and the second
\* run skipped every entry and left the output directory as it found it.
C3_IdempotentSkip ==
    ( /\ pc = "idle"
      /\ Len(runs) > 0
      /\ \A i \in 1..Len(runs) : ~runs[i].overwrite
      /\ inputExists
      /\ \A i \in 1..Len(entries) : Supported(entries[i]) )
    => /\ \A i \in 1..Len(runs) : runs[i].ok
       /\ Len(runs) = 2 =>
            /\ Len(status) = Len(entries)
            /\ \A i \in 1..Len(status) : status[i].status = "skipped"
            /\ out = out0

\* ------------------------------------------------------------------------
\* C4: get_media_and_overlay_file(dir) returns a pair exactly when one child
\* is an image named "...overlay..." and one child is an image or video named
\* "...main..." (case-insensitive); the pair is those two children; otherwise
\* it raises an error that names the directory and the count found for the
\* role that is missing or ambiguous.

OverlayCandidates(d) ==
    { f \in d.members :
        /\ f.type = "file" /\ f.kind = "image"
        /\ \E i \in 1..Len(f.name) :
              i + 6 <= Len(f.name)
              /\ Lower(SubSeq(f.name, i, i + 6)) = <<"o","v","e","r","l","a","y">> }

MainCandidates(d) ==
    { f \in d.members :
        /\ f.type = "file" /\ f.kind \in {"image", "video"}
        /\ \E i \in 1..Len(f.name) :
              i + 3 <= Len(f.name)
              /\ Lower(SubSeq(f.name, i, i + 3)) = <<"m","a","i","n">> }

C4_PairIffUnique ==
    ret.op = "get_media_and_overlay_file" =>
        LET d  == ret.arg
            v  == ret.val
            no == Cardinality(OverlayCandidates(d))
            nm == Cardinality(MainCandidates(d))
        IN  IF d.type # "dir"
            THEN ~v.ok
            ELSE /\ v.ok <=> (no = 1 /\ nm = 1)
                 /\ v.ok => /\ v.media \in MainCandidates(d)
                            /\ v.overlay \in OverlayCandidates(d)
                 /\ ~v.ok => /\ v.err = "ValueError"
                             /\ v.dir = d.name
                             /\ \/ v.role = "overlay" /\ v.count = no /\ no # 1
                                \/ v.role = "media" /\ v.count = nm /\ nm # 1

\* an ambiguous directory (two overlay images) was rejected with the count
C4_Witness ==
    /\ ret.op = "get_media_and_overlay_file"
    /\ ~ret.val.ok
    /\ ret.val.role = "overlay"
    /\ ret.val.count = 2
    /\ Cardinality(MainCandidates(ret.arg)) = 1

\* ------------------------------------------------------------------------
\* C5: the scratch directory of an archive entry is gone once the entry's
\* processing has ended, whichever way it ended; between entries no scratch
\* directory exists, and inside the block only the block's own one does.
C5_NoScratchLeft ==
    /\ pc = "idle" => tmpLive = {}
    /\ pc = "scope" => tmpLive = { scope.id }

\* two archives were unpacked, the last one failed in compositing after its
\* scratch directory had been made
C5_Witness ==
    /\ pc = "idle"
    /\ tmpMade >= 2
    /\ tmpLive = {}
    /\ ret.op = "_unpack_archive"
    /\ ret.val.made
    /\ ret.val.stage = "composite"

\* ------------------------------------------------------------------------
\* C6: every top-level file whose name ends in .zip, .tar, .tar.gz or .tgz is
\* an archive for _is_archive, and when the loop has handled it without
\* skipping it, it went down the archive branch (unpack, resolve, composite).
C6_ArchiveExtensionsRouted ==
    \A i \in 1..Len(status) :
        ( /\ entries[i].type = "file"
          /\ HasArchiveExtension(entries[i])
          /\ status[i].status # "skipped" )
        => /\ _is_archive(entries[i].name)
           /\ status[i].route = "archive"

\* ------------------------------------------------------------------------
\* C7: for an image media combine_media writes and returns the output base
\* plus the extension of the media's image kind: .png for PNG, .jpg for JPEG.
C7_ImageExtension ==
    ( /\ ret.op = "combine_media"
      /\ ret.val.ok
      /\ ret.arg.media.kind = "image" )
    => /\ ret.val.path =
            ret.arg.base \o Dot \o (IF ret.arg.media.fmt = F_PNG THEN S_png ELSE S_jpg)
       /\ \E f \in out : f.name = ret.val.path /\ f.origin = "merge"

\* ------------------------------------------------------------------------
\* C8: a loose image that is not skipped is copied under its own name when
\* the name already carries the extension of its format, and under its own
\* name plus "." plus that extension when it does not.

\* the extensions that match the decoded format
MatchingExts(e) ==
    IF e.fmt = F_PNG THEN { Dot \o S_png } ELSE { Dot \o S_jpg, Dot \o S_jpeg }

CarriesMatchingExt(e) == \E x \in MatchingExts(e) : EndsWith(Lower(e.name), x)

\* the names the copy may have
RestoredNames(e) ==
    IF CarriesMatchingExt(e) THEN { e.name }
    ELSE { e.name \o x : x \in MatchingExts(e) }

LooseImage(e) == e.type = "file" /\ e.kind = "image" /\ ~HasArchiveExtension(e)

C8_ImageCopyName ==
    \A i \in 1..Len(status) :
        ( LooseImage(entries[i]) /\ status[i].status # "skipped" )
        => /\ status[i].status = "copied"
           /\ status[i].path \in RestoredNames(entries[i])
           /\ \E f \in out : f.name = status[i].path

\* ------------------------------------------------------------------------
\* C9: whenever combine_media succeeds, for image and video media alike, the
\* overlay layer that was composited has the media's dimensions and so has
\* the output.
C9_OverlayResized ==
    ( ret.op = "combine_media" /\ ret.val.ok )
    => \E f \in out :
          /\ f.name = ret.val.path
          /\ f.size = ret.arg.media.size
          /\ f.layer = ret.arg.media.size

\* ------------------------------------------------------------------------
\* C10: a failing entry ends the run: the error reaches the caller, the
\* failing entry is the last one the loop touched, and what earlier entries
\* of the run wrote is still in the output directory.
C10_FailFast ==
    \A i \in 1..Len(status) :
        status[i].status = "failed"
        => /\ i = Len(status)
           /\ pc = "idle"
           /\ ret.op = "process_data"
           /\ ~ret.val.ok
           /\ ret.val.err = status[i].err
           /\ \A j \in 1..(i - 1) :
                 status[j].path # <<>> => \E f \in out : f.name = status[j].path
           /\ \A f \in out0 :
                 f \in out \/ \E j \in 1..(i - 1) : status[j].path = f.name

\* a run failed on an entry while a later entry was still waiting
C10_Witness ==
    /\ pc = "idle"
    /\ ret.op = "process_data"
    /\ ~ret.val.ok
    /\ Len(status) >= 1
    /\ status[Len(status)].status = "failed"
    /\ Len(entries) > Len(status)
    /\ out0 # {}

\* ------------------------------------------------------------------------
\* C11: main run with --dry-run still classifies every entry and validates
\* its pair (a directory of supported entries passes, exit code 0), writes
\* and copies nothing into the output directory and extracts no archive.
C11_DryRunValidatesWithoutWriting ==
    ( pc = "idle" /\ ret.op = "main" /\ ret.arg.dry_run /\ inputExists )
    => /\ out = out0
       /\ ret.val.made = 0
       /\ (\A i \in 1..Len(entries) : Supported(entries[i]))
             => /\ ret.val.code = 0
                /\ Len(status) = Len(entries)
                /\ \A i \in 1..Len(status) : status[i].route # "none"

C15_MediaIsNotOverlay ==
    ( /\ ret.op = "get_media_and_overlay_file"
      /\ ret.val.ok )
    => ret.val.media.name # ret.val.overlay.name

====
